---- MODULE Spec2Model ----
(***************************************************************************)
(* A model of roadexport/export.py: DataFormatter, the CSV / JSON / XML    *)
(* exporters and ExportManager.  One ExportManager instance is modelled;   *)
(* its API is called sequentially (the code is single-threaded), and each  *)
(* export call is followed through its steps: transform, writer prologue,  *)
(* one step per row, writer epilogue and return.                           *)
(*                                                                         *)
(* Text is a TLA+ string.  A Python value is a record [tag, n, s, items];  *)
(* a Python dict is a sequence of [k, v] pairs in insertion order; an      *)
(* Optional is a sequence of length 0 (None) or 1.                         *)
(***************************************************************************)
EXTENDS Integers, Sequences, FiniteSets, TLC

(***************************************************************************)
(* Bounds of the model.                                                    *)
(***************************************************************************)
MaxRows == 2
MaxTransformers == 2

(***************************************************************************)
(* Optional[T].                                                            *)
(***************************************************************************)
None == <<>>
Some(x) == <<x>>
IsNone(o) == o = <<>>
Get(o) == o[1]

(***************************************************************************)
(* Python values.                                                          *)
(***************************************************************************)
VNone == [tag |-> "none", n |-> 0, s |-> "", items |-> <<>>]
VBool(b) == [tag |-> "bool", n |-> IF b THEN 1 ELSE 0, s |-> "", items |-> <<>>]
VInt(i) == [tag |-> "int", n |-> i, s |-> "", items |-> <<>>]
VStr(t) == [tag |-> "str", n |-> 0, s |-> t, items |-> <<>>]
VList(xs) == [tag |-> "list", n |-> 0, s |-> "", items |-> xs]
VDict(kvs) == [tag |-> "dict", n |-> 0, s |-> "", items |-> kvs]
\* datetime(year, month, day, hour, minute, second)
VDatetime(y, mo, d, h, mi, sec) ==
    [tag |-> "datetime", n |-> 0, s |-> "",
     items |-> <<VInt(y), VInt(mo), VInt(d), VInt(h), VInt(mi), VInt(sec)>>]
\* an instance of a type none of the isinstance tests knows (a set, a Decimal,
\* a user class); t is what str() gives for it
VObject(t) == [tag |-> "object", n |-> 0, s |-> t, items |-> <<>>]

(***************************************************************************)
(* Python dicts: insertion-ordered sequences of [k, v] with distinct keys. *)
(***************************************************************************)
Keys(d) == [i \in 1..Len(d) |-> d[i].k]
HasKey(d, key) == \E i \in 1..Len(d) : d[i].k = key
\* dict.get(key, default)
DictGet(d, key, default) ==
    IF HasKey(d, key)
    THEN d[CHOOSE i \in 1..Len(d) : d[i].k = key].v
    ELSE default
\* {**d, key: value}: an existing key keeps its position, a new one goes last
DictSet(d, key, value) ==
    IF HasKey(d, key)
    THEN [i \in 1..Len(d) |-> IF d[i].k = key THEN [k |-> key, v |-> value] ELSE d[i]]
    ELSE Append(d, [k |-> key, v |-> value])
InSeq(x, xs) == \E i \in 1..Len(xs) : xs[i] = x
\* {k: v for k, v in row.items() if k in columns}
FilterKeys(d, columns) == SelectSeq(d, LAMBDA kv : InSeq(kv.k, columns))

(***************************************************************************)
(* str(), strftime() and json.dumps().                                     *)
(***************************************************************************)
Pad2(i) == IF i < 10 THEN "0" \o ToString(i) ELSE ToString(i)

RECURSIVE Pad4(_)
Pad4(t) == IF Len(t) < 4 THEN Pad4("0" \o t) ELSE t

\* one strftime directive
Directive(dt, c) ==
    CASE c = "Y" -> Pad4(ToString(dt.items[1].n))
      [] c = "m" -> Pad2(dt.items[2].n)
      [] c = "d" -> Pad2(dt.items[3].n)
      [] c = "H" -> Pad2(dt.items[4].n)
      [] c = "M" -> Pad2(dt.items[5].n)
      [] c = "S" -> Pad2(dt.items[6].n)
      [] c = "%" -> "%"
      [] OTHER -> "%" \o c

RECURSIVE strftime(_, _)
strftime(dt, fmt) ==
    IF Len(fmt) = 0 THEN ""
    ELSE IF Head(fmt) = "%" /\ Len(fmt) >= 2
         THEN Directive(dt, SubSeq(fmt, 2, 2)) \o strftime(dt, SubSeq(fmt, 3, Len(fmt)))
         ELSE Head(fmt) \o strftime(dt, Tail(fmt))

\* str(datetime): ISO date, a space, the time
StrDatetime(dt) == strftime(dt, "%Y-%m-%d %H:%M:%S")

\* str(value) for the values that reach it
Str(v) ==
    CASE v.tag = "none" -> "None"
      [] v.tag = "bool" -> IF v.n = 1 THEN "True" ELSE "False"
      [] v.tag = "int" -> ToString(v.n)
      [] v.tag = "datetime" -> StrDatetime(v)
      [] OTHER -> v.s

\* a JSON string literal: quotes and backslashes escaped
RECURSIVE JsonEscape(_)
JsonEscape(t) ==
    IF Len(t) = 0 THEN ""
    ELSE (IF Head(t) = "\"" THEN "\\\""
          ELSE IF Head(t) = "\\" THEN "\\\\"
          ELSE Head(t)) \o JsonEscape(Tail(t))
JsonString(t) == "\"" \o JsonEscape(t) \o "\""

\* whether json.dumps(v) finds every part of v serializable; with a default
\* function (default=str) everything is
RECURSIVE Serializable(_, _)
Serializable(v, hasDefault) ==
    CASE v.tag \in {"none", "bool", "int", "str"} -> TRUE
      [] v.tag = "list" ->
           \A i \in 1..Len(v.items) : Serializable(v.items[i], hasDefault)
      [] v.tag = "dict" ->
           \A i \in 1..Len(v.items) : Serializable(v.items[i].v, hasDefault)
      [] OTHER -> hasDefault

RECURSIVE JoinText(_, _)
JoinText(texts, sep) ==
    IF Len(texts) = 0 THEN ""
    ELSE IF Len(texts) = 1 THEN texts[1]
    ELSE texts[1] \o sep \o JoinText(Tail(texts), sep)

\* json.dumps(v) with the default separators (", " and ": "), for a
\* serializable v; datetimes and unknown objects go through default=str
RECURSIVE JsonText(_)
JsonText(v) ==
    CASE v.tag = "none" -> "null"
      [] v.tag = "bool" -> IF v.n = 1 THEN "true" ELSE "false"
      [] v.tag = "int" -> ToString(v.n)
      [] v.tag = "str" -> JsonString(v.s)
      [] v.tag = "list" ->
           "[" \o JoinText([i \in 1..Len(v.items) |-> JsonText(v.items[i])], ", ") \o "]"
      [] v.tag = "dict" ->
           "{" \o JoinText([i \in 1..Len(v.items) |->
                              JsonString(v.items[i].k) \o ": " \o JsonText(v.items[i].v)],
                           ", ") \o "}"
      [] OTHER -> JsonString(Str(v))

\* the outcome of a call that returns text or raises
Returned(t) == [raised |-> FALSE, text |-> t]
Raised(exc) == [raised |-> TRUE, text |-> exc]

json_dumps(v, hasDefault) ==
    IF Serializable(v, hasDefault)
    THEN Returned(JsonText(v))
    ELSE Raised("TypeError")

(***************************************************************************)
(* ExportFormat, ExportConfig, ExportResult.                               *)
(***************************************************************************)
ExportFormat == {"csv", "json", "jsonl", "tsv", "xml"}

\* ExportConfig(): the dataclass defaults
ExportConfig ==
    [format |-> "csv", columns |-> None, column_labels |-> None, delimiter |-> ",",
     include_header |-> TRUE, date_format |-> "%Y-%m-%d %H:%M:%S", null_value |-> "",
     encoding |-> "utf-8", batch_size |-> 1000]

\* ExportResult(success, row_count=0, byte_count=0, duration_ms=0, error=None)
ExportResult(success, row_count, error) ==
    [success |-> success, row_count |-> row_count, byte_count |-> 0,
     duration_ms |-> 0, error |-> error]

\* Python truthiness of an Optional[list] / Optional[dict]
Truthy(o) == ~IsNone(o) /\ Len(Get(o)) > 0

(***************************************************************************)
(* DataFormatter.                                                          *)
(***************************************************************************)
format_value(config, value) ==
    IF value.tag = "none" THEN Returned(config.null_value)
    ELSE IF value.tag = "datetime" THEN Returned(strftime(value, config.date_format))
    ELSE IF value.tag = "bool" THEN Returned(IF value.n = 1 THEN "true" ELSE "false")
    ELSE IF value.tag \in {"list", "dict"} THEN json_dumps(value, FALSE)
    ELSE Returned(Str(value))

\* the cells of the columns before the first one whose formatting raises
RECURSIVE FormatCells(_, _, _)
FormatCells(config, row, columns) ==
    IF Len(columns) = 0 THEN <<>>
    ELSE LET c == format_value(config, DictGet(row, Head(columns), VNone))
         IN  IF c.raised THEN <<>>
             ELSE <<c.text>> \o FormatCells(config, row, Tail(columns))

\* a variant that formats only the columns the row has
format_row_SkipsMissing(config, row, columns) ==
    [raised |-> \E i \in 1..Len(columns) :
                    format_value(config, DictGet(row, columns[i], VNone)).raised,
     cells |-> FormatCells(config, row, SelectSeq(columns, LAMBDA c : HasKey(row, c)))]

\* [raised, cells]: the list comprehension raises as soon as one cell does
format_row(config, row, columns) ==
    [raised |-> \E i \in 1..Len(columns) :
                    format_value(config, DictGet(row, columns[i], VNone)).raised,
     cells |-> FormatCells(config, row, columns)]

(***************************************************************************)
(* Column and label resolution of the exporters.                           *)
(***************************************************************************)
\* a variant that always takes the first record's keys
CsvColumns_FirstRecordOnly(config, data) == Keys(data[1])

\* self.config.columns or list(data[0].keys())            (data non-empty)
CsvColumns(config, data) ==
    IF Truthy(config.columns) THEN Get(config.columns) ELSE Keys(data[1])

\* self.config.columns or (list(data[0].keys()) if data else [])
XmlColumns(config, data) ==
    IF Truthy(config.columns) THEN Get(config.columns)
    ELSE IF Len(data) > 0 THEN Keys(data[1]) ELSE <<>>

\* a variant that ignores column_labels
Labels_FieldNames(config, columns) == columns

\* [column_labels.get(c, c) if column_labels else c for c in columns]
Labels(config, columns) ==
    [i \in 1..Len(columns) |->
        IF Truthy(config.column_labels)
        THEN DictGet(Get(config.column_labels), columns[i], columns[i])
        ELSE columns[i]]

\* a variant that builds the object from the column list: {c: row.get(c)}
JsonFiltered_AllColumns(config, row) ==
    IF Truthy(config.columns)
    THEN [i \in 1..Len(Get(config.columns)) |->
            [k |-> Get(config.columns)[i],
             v |-> DictGet(row, Get(config.columns)[i], VNone)]]
    ELSE row

\* row filtered by config.columns when that is truthy (JSON exporters)
JsonFiltered(config, row) ==
    IF Truthy(config.columns) THEN FilterKeys(row, Get(config.columns)) ELSE row

(***************************************************************************)
(* XML text escaping: "&" first, then "<", then ">".                       *)
(***************************************************************************)
RECURSIVE Replace(_, _, _)
Replace(t, ch, rep) ==
    IF Len(t) = 0 THEN ""
    ELSE (IF Head(t) = ch THEN rep ELSE Head(t)) \o Replace(Tail(t), ch, rep)

XmlEscape(t) == Replace(Replace(Replace(t, "&", "&amp;"), "<", "&lt;"), ">", "&gt;")

(***************************************************************************)
(* What the exporters hand to the sink.  Every write is one event carrying *)
(* the literal text written, and beside it what the text was made from:    *)
(* the cells of a csv row, the name and content of an XML element, the     *)
(* objects of a JSON document.                                             *)
(***************************************************************************)
Event(kind, text, name, cells, docs) ==
    [kind |-> kind, text |-> text, name |-> name, cells |-> cells, docs |-> docs]

\* csv.writer(output, delimiter).writerow(cells): excel dialect, minimal quoting
NeedsQuote(t, delimiter) ==
    \E i \in 1..Len(t) : SubSeq(t, i, i) \in {delimiter, "\"", "\n", "\r"}
CsvField(t, delimiter) ==
    IF NeedsQuote(t, delimiter) THEN "\"" \o Replace(t, "\"", "\"\"") \o "\"" ELSE t
CsvLine(cells, delimiter) ==
    IF cells = <<"">> THEN "\"\"\r\n"
    ELSE JoinText([i \in 1..Len(cells) |-> CsvField(cells[i], delimiter)], delimiter)
         \o "\r\n"
writerow(config, cells) ==
    Event("writerow", CsvLine(cells, config.delimiter), "", cells, <<>>)

\* what json.dumps(..., default=str) serializes: values it cannot encode are
\* replaced by str(value)
RECURSIVE JsonDefault(_)
JsonDefault(v) ==
    CASE v.tag \in {"none", "bool", "int", "str"} -> v
      [] v.tag = "list" -> VList([i \in 1..Len(v.items) |-> JsonDefault(v.items[i])])
      [] v.tag = "dict" ->
           VDict([i \in 1..Len(v.items) |->
                    [k |-> v.items[i].k, v |-> JsonDefault(v.items[i].v)]])
      [] OTHER -> VStr(Str(v))

\* json.dumps(v, indent=2): one item per line, "," between items
RECURSIVE Spaces(_)
Spaces(k) == IF k = 0 THEN "" ELSE " " \o Spaces(k - 1)

RECURSIVE JsonTextIndent(_, _)
JsonTextIndent(v, level) ==
    CASE v.tag = "list" /\ Len(v.items) > 0 ->
           "[\n" \o JoinText([i \in 1..Len(v.items) |->
                                Spaces(2 * (level + 1))
                                \o JsonTextIndent(v.items[i], level + 1)], ",\n")
           \o "\n" \o Spaces(2 * level) \o "]"
      [] v.tag = "dict" /\ Len(v.items) > 0 ->
           "{\n" \o JoinText([i \in 1..Len(v.items) |->
                                Spaces(2 * (level + 1)) \o JsonString(v.items[i].k) \o ": "
                                \o JsonTextIndent(v.items[i].v, level + 1)], ",\n")
           \o "\n" \o Spaces(2 * level) \o "}"
      [] OTHER -> JsonText(v)

\* output.write(json.dumps(filtered, indent=indent, default=str))
WriteJsonArray(filtered, pretty) ==
    LET docs == [i \in 1..Len(filtered) |-> JsonDefault(VDict(filtered[i]))]
    IN  Event("json_array",
              IF pretty THEN JsonTextIndent(VList(docs), 0) ELSE JsonText(VList(docs)),
              "", <<>>, docs)

\* output.write(json.dumps(row, default=str) + "\n")
WriteJsonLine(row) ==
    LET doc == JsonDefault(VDict(row))
    IN  Event("json_line", JsonText(doc) \o "\n", "", <<>>, <<doc>>)

\* the writes of XMLExporter.export
XmlDeclaration(config) ==
    Event("declaration",
          "<?xml version=\"1.0\" encoding=\"" \o config.encoding \o "\"?>\n",
          "", <<>>, <<>>)
XmlOpen(element, indent) ==
    Event("open", indent \o "<" \o element \o ">\n", element, <<>>, <<>>)
XmlClose(element, indent, end) ==
    Event("close", indent \o "</" \o element \o ">" \o end, element, <<>>, <<>>)
XmlCell(col, value) ==
    LET escaped == XmlEscape(value)
    IN  Event("cell", "    <" \o col \o ">" \o escaped \o "</" \o col \o ">\n",
              col, <<escaped>>, <<>>)

\* the writes of one row element: its opening tag, one element per column up
\* to the first whose formatting raises, and (when none raises) its closing tag
XmlRowWrites(config, row, columns) ==
    LET f == format_row(config, row, columns)
    IN  <<XmlOpen("row", "  ")>>
        \o [i \in 1..Len(f.cells) |-> XmlCell(columns[i], f.cells[i])]
        \o (IF f.raised THEN <<>> ELSE <<XmlClose("row", "  ", "\n")>>)

\* io.StringIO.getvalue(): everything written, in order
Getvalue(events) == JoinText([i \in 1..Len(events) |-> events[i].text], "")

(***************************************************************************)
(* Transformers a caller may register: record -> record callables.         *)
(*   add_full_name = lambda r: {**r, "full_name": f"{r['name']} Doe"}      *)
(*   anonymize     = lambda r: {**r, "name": "Anon"}                      *)
(* add_full_name raises KeyError on a record without "name".               *)
(***************************************************************************)
Transformers == {"add_full_name", "anonymize"}

Transformer(fn, row) ==
    CASE fn = "add_full_name" ->
           IF HasKey(row, "name")
           THEN [raised |-> FALSE,
                 row |-> DictSet(row, "full_name",
                                 VStr(Str(DictGet(row, "name", VNone)) \o " Doe"))]
           ELSE [raised |-> TRUE, row |-> row]
      [] fn = "anonymize" ->
           [raised |-> FALSE, row |-> DictSet(row, "name", VStr("Anon"))]

\* for transformer in self.transformers: row = transformer(row)
RECURSIVE ApplyFrom(_, _, _)
ApplyFrom(fns, i, r) ==
    IF i > Len(fns) \/ r.raised THEN r
    ELSE ApplyFrom(fns, i + 1, Transformer(fns[i], r.row))

RECURSIVE TransformFrom(_, _, _, _)
TransformFrom(fns, data, i, result) ==
    IF i > Len(data) THEN [raised |-> FALSE, rows |-> result]
    ELSE LET r == ApplyFrom(fns, 1, [raised |-> FALSE, row |-> data[i]])
         IN  IF r.raised THEN [raised |-> TRUE, rows |-> result]
             ELSE TransformFrom(fns, data, i + 1, Append(result, r.row))

\* a variant that applies the transformers last-registered first
Reverse(q) == [i \in 1..Len(q) |-> q[Len(q) + 1 - i]]
_transform_Reversed(fns, data) ==
    IF Len(fns) = 0 THEN [raised |-> FALSE, rows |-> data]
    ELSE TransformFrom(Reverse(fns), data, 1, <<>>)

\* ExportManager._transform
_transform(fns, data) ==
    IF Len(fns) = 0 THEN [raised |-> FALSE, rows |-> data]
    ELSE TransformFrom(fns, data, 1, <<>>)

(***************************************************************************)
(* Inputs of the calls: records, record lists and configurations.          *)
(***************************************************************************)
Created == VDatetime(2024, 1, 5, 9, 3, 7)

Alice == <<[k |-> "id", v |-> VInt(1)], [k |-> "name", v |-> VStr("Alice")]>>
Bob ==
    <<[k |-> "name", v |-> VNone], [k |-> "id", v |-> VInt(2)],
      [k |-> "note", v |-> VStr("<b>&</b>")]>>
Carol ==
    <<[k |-> "id", v |-> VInt(3)], [k |-> "active", v |-> VBool(TRUE)],
      [k |-> "created", v |-> Created], [k |-> "tags", v |-> VList(<<Created>>)]>>

Records == {Alice, Bob, Carol}

RECURSIVE SeqsUpTo(_, _)
SeqsUpTo(S, n) ==
    IF n = 0 THEN {<<>>}
    ELSE LET shorter == SeqsUpTo(S, n - 1)
         IN  shorter \cup {Append(q, x) : q \in shorter, x \in S}

Datas == SeqsUpTo(Records, MaxRows)

ColumnChoices == {None, Some(<<>>), Some(<<"name", "id", "full_name">>)}

Variants ==
    { ExportConfig,
      [ExportConfig EXCEPT !.column_labels = Some(<<[k |-> "name", v |-> "Name"]>>),
                           !.null_value = "NULL", !.date_format = "%d/%m/%Y"],
      [ExportConfig EXCEPT !.include_header = FALSE, !.null_value = "NULL"] }

Configs == {[c EXCEPT !.columns = cols] : c \in Variants, cols \in ColumnChoices}

\* config.format is not validated: besides the members of ExportFormat a
\* caller can store any other value in the field
Formats == ExportFormat \cup {"yaml"}

Values ==
    { VNone, VBool(TRUE), VBool(FALSE), VInt(0), VInt(42), VInt(-7),
      VStr(""), VStr("Alice"), VStr("<b>&</b>"), VStr("true"), Created,
      VList(<<>>), VList(<<VInt(1), VStr("x"), VNone>>), VList(<<Created>>),
      VDict(<<[k |-> "a", v |-> VBool(TRUE)]>>),
      VDict(<<[k |-> "s", v |-> VObject("{1, 2}")]>>),
      VObject("1.5") }

(***************************************************************************)
(* State.                                                                  *)
(***************************************************************************)
VARIABLES
    transformers,   \* ExportManager.transformers
    pc,             \* where the call in progress stands
    call,           \* the call in progress or last made, with its arguments
    writer,         \* the exporter method the call dispatched to
    rows,           \* the record list handed to the exporter
    columns,        \* the exporter's local `columns`
    idx,            \* the exporter's position in `for row in data`
    row_count,      \* the exporter's local `row_count`
    sink,           \* what has been written to the call's output
    fileOpen,       \* whether export_to_file's file is open
    writerResult,   \* Optional: the ExportResult the exporter returned
    result          \* what the call returned or raised

vars ==
    <<transformers, pc, call, writer, rows, columns, idx, row_count, sink,
      fileOpen, writerResult, result>>

NoCall ==
    [op |-> "none", data |-> <<>>, config |-> ExportConfig, pretty |-> FALSE,
     value |-> VNone, transformers |-> <<>>]

NoResult == [kind |-> "none", value |-> None, text |-> ""]
ReturnedResult(r) == [kind |-> "ExportResult", value |-> Some(r), text |-> ""]
ReturnedText(t) == [kind |-> "str", value |-> None, text |-> t]
RaisedResult(exc) == [kind |-> "raised", value |-> None, text |-> exc]

Init ==
    /\ transformers = <<>>
    /\ pc = "idle"
    /\ call = NoCall
    /\ writer = "none"
    /\ rows = <<>>
    /\ columns = <<>>
    /\ idx = 0
    /\ row_count = 0
    /\ sink = <<>>
    /\ fileOpen = FALSE
    /\ writerResult = None
    /\ result = NoResult

\* the manager is between calls
Idle == pc = "idle"

\* a fresh frame for the call c
Enter(c, w, next, res) ==
    /\ call' = c
    /\ writer' = w
    /\ pc' = next
    /\ rows' = <<>>
    /\ columns' = <<>>
    /\ idx' = 0
    /\ row_count' = 0
    /\ sink' = <<>>
    /\ writerResult' = None
    /\ result' = res

\* a variant without `with`: f.close() is reached only when nothing raises
WithExit_OnSuccessOnly(open, raising) == open /\ raising

\* the `with open(...) as f` block is left: f is closed, whether the block
\* ends normally or an exception propagates through it
WithExit(open, raising) == FALSE

\* an exception leaves the call
Raise(exc) ==
    /\ pc' = "done"
    /\ result' = RaisedResult(exc)
    /\ fileOpen' = (IF call.op = "export_to_file" THEN WithExit(fileOpen, TRUE)
                    ELSE fileOpen)

\* writes to a file can fail (OSError, UnicodeEncodeError); to a StringIO not
CanFail == call.op = "export_to_file"

\* a sink write failure during the writes E: some proper prefix of E reached
\* the sink and the exception propagates
SinkWriteFailure(E) ==
    /\ CanFail
    /\ \E n \in 0..(Len(E) - 1) : sink' = sink \o SubSeq(E, 1, n)
    /\ Raise("OSError")

(***************************************************************************)
(* ExportManager: registration and the entry points.                       *)
(***************************************************************************)
Call(op, data, config, pretty) ==
    [op |-> op, data |-> data, config |-> config, pretty |-> pretty,
     value |-> VNone, transformers |-> transformers]

\* `config = config or ExportConfig(format=...)`: the caller's configuration,
\* or the defaults with the entry point's format when none is given
Effective(config, format) ==
    IF IsNone(config) THEN [ExportConfig EXCEPT !.format = format] ELSE Get(config)

\* the optional `config` argument of the entry points
ConfigArgs == {None} \cup {Some(c) : c \in Configs}

add_transformer ==
    /\ Idle
    /\ Len(transformers) < MaxTransformers
    /\ \E fn \in Transformers : transformers' = Append(transformers, fn)
    /\ UNCHANGED <<pc, call, writer, rows, columns, idx, row_count, sink, fileOpen,
                   writerResult, result>>

export_csv ==
    /\ Idle
    /\ \E data \in Datas, config \in ConfigArgs :
          Enter(Call("export_csv", data, Effective(config, "csv"), FALSE),
                "CSVExporter.export", "transform", NoResult)
    /\ UNCHANGED <<transformers, fileOpen>>

export_json ==
    /\ Idle
    /\ \E data \in Datas, config \in ConfigArgs, pretty \in BOOLEAN :
          Enter(Call("export_json", data, Effective(config, "json"), pretty),
                "JSONExporter.export", "transform", NoResult)
    /\ UNCHANGED <<transformers, fileOpen>>

export_jsonl ==
    /\ Idle
    /\ \E data \in Datas, config \in ConfigArgs :
          Enter(Call("export_jsonl", data, Effective(config, "jsonl"), FALSE),
                "JSONExporter.export_jsonl", "transform", NoResult)
    /\ UNCHANGED <<transformers, fileOpen>>

export_xml ==
    /\ Idle
    /\ \E data \in Datas, config \in ConfigArgs :
          Enter(Call("export_xml", data, Effective(config, "xml"), FALSE),
                "XMLExporter.export", "transform", NoResult)
    /\ UNCHANGED <<transformers, fileOpen>>

\* export_to_file up to the head of its `with` block: open(filepath, "w")
\* has created or truncated the file (the sink starts empty) and the file is
\* open.  A call whose open() raises never holds the destination and is not
\* followed.
export_to_file ==
    /\ Idle
    /\ \E data \in Datas,
          config \in {None} \cup {Some([c EXCEPT !.format = f]) : c \in Configs, f \in Formats} :
          Enter(Call("export_to_file", data, Effective(config, "csv"), TRUE),
                "none", "dispatch", NoResult)
    /\ fileOpen' = TRUE
    /\ UNCHANGED transformers

\* a variant whose chain ends in an else branch that writes CSV
Dispatch_DefaultsToCsv(format) ==
    CASE format = "json" -> "JSONExporter.export"
      [] format = "jsonl" -> "JSONExporter.export_jsonl"
      [] format = "xml" -> "XMLExporter.export"
      [] OTHER -> "CSVExporter.export"

\* the if / elif chain of export_to_file
Dispatch(format) ==
    CASE format = "csv" -> "CSVExporter.export"
      [] format = "json" -> "JSONExporter.export"
      [] format = "jsonl" -> "JSONExporter.export_jsonl"
      [] format = "xml" -> "XMLExporter.export"
      [] OTHER -> "none"

DispatchToWriter ==
    /\ pc = "dispatch"
    /\ Dispatch(call.config.format) # "none"
    /\ writer' = Dispatch(call.config.format)
    /\ pc' = "transform"
    /\ UNCHANGED <<transformers, call, rows, columns, idx, row_count, sink, fileOpen,
                   writerResult, result>>

\* no branch taken: the `with` block ends and the final return is reached
UnknownFormat ==
    /\ pc = "dispatch"
    /\ Dispatch(call.config.format) = "none"
    /\ fileOpen' = WithExit(fileOpen, FALSE)
    /\ result' = ReturnedResult(ExportResult(FALSE, 0, Some("Unknown format")))
    /\ pc' = "done"
    /\ UNCHANGED <<transformers, call, writer, rows, columns, idx, row_count, sink,
                   writerResult>>

\* self._transform(data), evaluated as the exporter's argument
Transform ==
    /\ pc = "transform"
    /\ LET t == _transform(transformers, call.data)
       IN  /\ ~t.raised
           /\ rows' = t.rows
    /\ pc' = (IF writer = "JSONExporter.export_jsonl" THEN "rows" ELSE "begin")
    /\ idx' = 1
    /\ UNCHANGED <<transformers, call, writer, columns, row_count, sink, fileOpen,
                   writerResult, result>>

TransformerFailure ==
    /\ pc = "transform"
    /\ _transform(transformers, call.data).raised
    /\ Raise("KeyError")
    /\ UNCHANGED <<transformers, call, writer, rows, columns, idx, row_count, sink,
                   writerResult>>

\* DataFormatter(config).format_value(value), called directly
call_format_value ==
    /\ Idle
    /\ \E value \in Values, config \in Variants :
          LET r == format_value(config, value)
          IN  Enter([NoCall EXCEPT !.op = "format_value", !.value = value,
                                   !.config = config],
                    "none", "done",
                    IF r.raised THEN RaisedResult(r.text) ELSE ReturnedText(r.text))
    /\ UNCHANGED <<transformers, fileOpen>>

(***************************************************************************)
(* The exporters, step by step.  PendingWrites is what the step at hand    *)
(* writes when nothing fails; a cell whose formatting raises cuts it short.*)
(***************************************************************************)
InLoop == pc = "rows" /\ idx <= Len(rows)
LoopDone == pc = "rows" /\ idx > Len(rows)

CsvHeader ==
    IF call.config.include_header
    THEN <<writerow(call.config, Labels(call.config, CsvColumns(call.config, rows)))>>
    ELSE <<>>

PendingWrites ==
    CASE writer = "CSVExporter.export" /\ pc = "begin" /\ Len(rows) > 0 -> CsvHeader
      [] writer = "CSVExporter.export" /\ InLoop ->
           LET f == format_row(call.config, rows[idx], columns)
           IN  IF f.raised THEN <<>> ELSE <<writerow(call.config, f.cells)>>
      [] writer = "JSONExporter.export" /\ pc = "begin" ->
           <<WriteJsonArray([i \in 1..Len(rows) |-> JsonFiltered(call.config, rows[i])],
                            call.pretty)>>
      [] writer = "JSONExporter.export_jsonl" /\ InLoop ->
           <<WriteJsonLine(JsonFiltered(call.config, rows[idx]))>>
      [] writer = "XMLExporter.export" /\ pc = "begin" ->
           <<XmlDeclaration(call.config), XmlOpen("data", "")>>
      [] writer = "XMLExporter.export" /\ InLoop ->
           XmlRowWrites(call.config, rows[idx], columns)
      [] writer = "XMLExporter.export" /\ LoopDone -> <<XmlClose("data", "", "")>>
      [] OTHER -> <<>>

\* format_value raises in the row at hand
FormatRaises ==
    /\ writer \in {"CSVExporter.export", "XMLExporter.export"}
    /\ InLoop
    /\ format_row(call.config, rows[idx], columns).raised

\* the exporter returns its ExportResult
ExporterReturns(r) ==
    /\ writerResult' = Some(r)
    /\ pc' = "return"

\* CSVExporter.export: `if not data: return ExportResult(success=True, row_count=0)`
CSVExport_Empty ==
    /\ writer = "CSVExporter.export" /\ pc = "begin"
    /\ Len(rows) = 0
    /\ ExporterReturns(ExportResult(TRUE, 0, None))
    /\ UNCHANGED <<transformers, call, writer, rows, columns, idx, row_count, sink,
                   fileOpen, result>>

\* columns, labels, csv.writer and the header row
CSVExport_Begin ==
    /\ writer = "CSVExporter.export" /\ pc = "begin"
    /\ Len(rows) > 0
    /\ columns' = CsvColumns(call.config, rows)
    /\ sink' = sink \o PendingWrites
    /\ row_count' = 0
    /\ pc' = "rows"
    /\ UNCHANGED <<transformers, call, writer, rows, idx, fileOpen, writerResult, result>>

\* one turn of `for row in data`
CSVExport_Row ==
    /\ writer = "CSVExporter.export" /\ InLoop
    /\ ~FormatRaises
    /\ sink' = sink \o PendingWrites
    /\ row_count' = row_count + 1
    /\ idx' = idx + 1
    /\ UNCHANGED <<transformers, pc, call, writer, rows, columns, fileOpen,
                   writerResult, result>>

\* a variant that reports every line it wrote, the header included
CSVExport_End_CountsHeader ==
    /\ writer = "CSVExporter.export" /\ LoopDone
    /\ ExporterReturns(ExportResult(TRUE, Len(sink), None))
    /\ UNCHANGED <<transformers, call, writer, rows, columns, idx, row_count, sink,
                   fileOpen, result>>

CSVExport_End ==
    /\ writer = "CSVExporter.export" /\ LoopDone
    /\ ExporterReturns(ExportResult(TRUE, row_count, None))
    /\ UNCHANGED <<transformers, call, writer, rows, columns, idx, row_count, sink,
                   fileOpen, result>>

\* JSONExporter.export: one write of the whole array
JSONExport ==
    /\ writer = "JSONExporter.export" /\ pc = "begin"
    /\ sink' = sink \o PendingWrites
    /\ ExporterReturns(ExportResult(TRUE, Len(rows), None))
    /\ UNCHANGED <<transformers, call, writer, rows, columns, idx, row_count,
                   fileOpen, result>>

JSONLExport_Row ==
    /\ writer = "JSONExporter.export_jsonl" /\ InLoop
    /\ sink' = sink \o PendingWrites
    /\ row_count' = row_count + 1
    /\ idx' = idx + 1
    /\ UNCHANGED <<transformers, pc, call, writer, rows, columns, fileOpen,
                   writerResult, result>>

JSONLExport_End ==
    /\ writer = "JSONExporter.export_jsonl" /\ LoopDone
    /\ ExporterReturns(ExportResult(TRUE, row_count, None))
    /\ UNCHANGED <<transformers, call, writer, rows, columns, idx, row_count, sink,
                   fileOpen, result>>

\* XMLExporter.export: declaration, root tag, columns
XMLExport_Begin ==
    /\ writer = "XMLExporter.export" /\ pc = "begin"
    /\ sink' = sink \o PendingWrites
    /\ columns' = XmlColumns(call.config, rows)
    /\ row_count' = 0
    /\ pc' = "rows"
    /\ UNCHANGED <<transformers, call, writer, rows, idx, fileOpen, writerResult, result>>

XMLExport_Row ==
    /\ writer = "XMLExporter.export" /\ InLoop
    /\ ~FormatRaises
    /\ sink' = sink \o PendingWrites
    /\ row_count' = row_count + 1
    /\ idx' = idx + 1
    /\ UNCHANGED <<transformers, pc, call, writer, rows, columns, fileOpen,
                   writerResult, result>>

XMLExport_End ==
    /\ writer = "XMLExporter.export" /\ LoopDone
    /\ sink' = sink \o PendingWrites
    /\ ExporterReturns(ExportResult(TRUE, row_count, None))
    /\ UNCHANGED <<transformers, call, writer, rows, columns, idx, row_count,
                   fileOpen, result>>

\* format_value raises (json.dumps on a list or dict it cannot serialize):
\* what the row wrote before the failing cell stays written
FormatFailure ==
    /\ FormatRaises
    /\ sink' = sink \o PendingWrites
    /\ Raise("TypeError")
    /\ UNCHANGED <<transformers, call, writer, rows, columns, idx, row_count,
                   writerResult>>

\* a write to the file fails
SinkFailure ==
    /\ pc \in {"begin", "rows"}
    /\ SinkWriteFailure(PendingWrites)
    /\ UNCHANGED <<transformers, call, writer, rows, columns, idx, row_count,
                   writerResult>>

\* the entry point returns: the exporter's ExportResult through the end of the
\* `with` block (export_to_file), or output.getvalue() (the in-memory ones)
Return ==
    /\ pc = "return"
    /\ pc' = "done"
    /\ IF call.op = "export_to_file"
       THEN /\ result' = ReturnedResult(Get(writerResult))
            /\ fileOpen' = WithExit(fileOpen, FALSE)
       ELSE /\ result' = ReturnedText(Getvalue(sink))
            /\ UNCHANGED fileOpen
    /\ UNCHANGED <<transformers, call, writer, rows, columns, idx, row_count, sink,
                   writerResult>>

\* the caller has the call's outcome and goes on to its next call; the frame
\* of the finished call is gone
Continue ==
    /\ pc = "done"
    /\ Enter(NoCall, "none", "idle", NoResult)
    /\ UNCHANGED <<transformers, fileOpen>>

Next ==
    \/ add_transformer
    \/ export_csv
    \/ export_json
    \/ export_jsonl
    \/ export_xml
    \/ export_to_file
    \/ call_format_value
    \/ DispatchToWriter
    \/ UnknownFormat
    \/ Transform
    \/ TransformerFailure
    \/ CSVExport_Empty
    \/ CSVExport_Begin
    \/ CSVExport_Row
    \/ CSVExport_End
    \/ JSONExport
    \/ JSONLExport_Row
    \/ JSONLExport_End
    \/ XMLExport_Begin
    \/ XMLExport_Row
    \/ XMLExport_End
    \/ FormatFailure
    \/ SinkFailure
    \/ Return
    \/ Continue

Spec == Init /\ [][Next]_vars

(***************************************************************************)
(* Properties.                                                             *)
(***************************************************************************)
Exports == {"export_csv", "export_json", "export_jsonl", "export_xml", "export_to_file"}
ToFile == call.op = "export_to_file"
Finished == pc = "done"
Config == call.config

\* the number of elements of q that satisfy P
Count(q, P(_)) == Cardinality({i \in 1..Len(q) : P(q[i])})

\* the writer that belongs to each member of ExportFormat: the delimited
\* writer serves CSV and TSV
WriterOf(format) ==
    CASE format \in {"csv", "tsv"} -> "CSVExporter.export"
      [] format = "json" -> "JSONExporter.export"
      [] format = "jsonl" -> "JSONExporter.export_jsonl"
      [] format = "xml" -> "XMLExporter.export"

\* C1: for every member of ExportFormat, an export_to_file call that ends
\* without a propagated failure has dispatched to the writer of that format
\* and returns that writer's ExportResult: success, with the writer's
\* row_count.
C1_EveryFormatDispatched ==
    (Finished /\ ToFile /\ Config.format \in ExportFormat /\ result.kind # "raised")
    => /\ writer = WriterOf(Config.format)
       /\ result.kind = "ExportResult"
       /\ result.value = writerResult
       /\ Get(result.value).success
       /\ Get(result.value).row_count = Len(call.data)

\* the formats export_to_file has no writer for
NoWriterFor(format) == format \notin {"csv", "json", "jsonl", "xml"}

\* C2: export_to_file with a format it has no writer for does not raise; it
\* returns ExportResult(success = false) with a non-empty error, no writer
\* is invoked and nothing is written to the destination, at any point of
\* the call.
C2_UnknownFormatFails ==
    (ToFile /\ NoWriterFor(Config.format))
    => /\ writer = "none"
       /\ writerResult = None
       /\ sink = <<>>
       /\ pc \in {"dispatch", "done"}
       /\ Finished =>
            /\ result.kind = "ExportResult"
            /\ ~Get(result.value).success
            /\ ~IsNone(Get(result.value).error)
            /\ Len(Get(Get(result.value).error)) > 0

C2_Witness ==
    /\ Finished /\ ToFile
    /\ Config.format = "yaml"
    /\ Len(call.data) = 2
    /\ result.kind = "ExportResult"

\* C3: the destination is open exactly while an export_to_file call is in
\* progress; once the call has ended (normal return, unknown-format return,
\* propagated transformer, formatting or sink-write failure) it is closed.
C3_DestinationReleased ==
    /\ fileOpen => (ToFile /\ pc \notin {"idle", "done"})
    /\ (ToFile /\ pc \notin {"idle", "done"}) => fileOpen

C3_Witness ==
    /\ Finished /\ ToFile
    /\ result.kind = "raised"
    /\ result.text = "OSError"
    /\ Len(sink) > 0
    /\ ~fileOpen

\* the records a finished writer put into the sink
IsCloseRow(e) == e.kind = "close" /\ e.name = "row"
IsJsonLine(e) == e.kind = "json_line"
RecordsWritten ==
    CASE writer = "CSVExporter.export" ->
           Len(sink) - (IF Config.include_header /\ Len(sink) > 0 THEN 1 ELSE 0)
      [] writer = "JSONExporter.export" -> Len(sink[1].docs)
      [] writer = "JSONExporter.export_jsonl" -> Count(sink, IsJsonLine)
      [] writer = "XMLExporter.export" -> Count(sink, IsCloseRow)

WellFormedResult(r) ==
    IF r.success THEN IsNone(r.error) ELSE ~IsNone(r.error) /\ Len(Get(r.error)) > 0

\* C4: every ExportResult a writer or the coordinator returns has: success
\* => no error and row_count = the number of records written to the sink,
\* which is the number of input records (filtering by column drops fields,
\* not rows; the CSV header is not counted); failure => error populated.
C4_ResultInvariant ==
    /\ ~IsNone(writerResult) =>
         /\ WellFormedResult(Get(writerResult))
         /\ Get(writerResult).success
         /\ Get(writerResult).row_count = RecordsWritten
         /\ Get(writerResult).row_count = Len(call.data)
    /\ result.kind = "ExportResult" =>
         /\ WellFormedResult(Get(result.value))
         /\ Get(result.value).success =>
              /\ result.value = writerResult
              /\ Get(result.value).row_count = RecordsWritten

C4_Witness ==
    /\ Finished /\ ToFile
    /\ writer = "CSVExporter.export"
    /\ Config.include_header
    /\ Truthy(Config.columns)
    /\ result.kind = "ExportResult"
    /\ Get(result.value).row_count = 2
    /\ Len(sink) = 3

\* the result of threading row through the first n transformers of fns
RECURSIVE Chain(_, _, _)
Chain(fns, n, row) ==
    IF n = 0 THEN row ELSE Transformer(fns[n], Chain(fns, n - 1, row)).row

\* the i-th input record after every transformer registered at the call
ExpectedRow(i) == Chain(call.transformers, Len(call.transformers), call.data[i])

IsCsv == writer = "CSVExporter.export"
IsXml == writer = "XMLExporter.export"

\* the exporter has resolved its column list
ColumnsResolved ==
    \/ (IsCsv \/ IsXml) /\ pc = "rows"
    \/ IsXml /\ ~IsNone(writerResult)
    \/ IsCsv /\ ~IsNone(writerResult) /\ Len(call.data) > 0

NoRowWritten ==
    IF IsCsv THEN sink = <<>> ELSE \A i \in 1..Len(sink) : sink[i].kind \notin {"cell"}

\* zero records and no explicit columns: no column, no row
EmptyExport ==
    ((IsCsv \/ IsXml) /\ ~IsNone(writerResult) /\ Len(call.data) = 0
        /\ IsNone(Config.columns))
    => (columns = <<>> /\ row_count = 0 /\ NoRowWritten)

\* C5 as stated: the resolved column list is config.columns whenever that
\* is set (not None), else the key order of the first transformed record.
C5_ColumnsVerbatimWhenSet ==
    /\ ColumnsResolved =>
         columns = (IF ~IsNone(Config.columns) THEN Get(Config.columns)
                    ELSE IF Len(call.data) > 0 THEN Keys(ExpectedRow(1))
                    ELSE <<>>)
    /\ EmptyExport

\* C5 as amended: the resolved column list is config.columns, same members
\* in the same order, whenever that is a non-empty list; when it is None or
\* an empty list it is the key order of the first record after the
\* transformers have been applied (empty for zero records, and then no row
\* is written).
C5_ColumnsVerbatimWhenNonEmpty ==
    /\ ColumnsResolved =>
         columns = (IF ~IsNone(Config.columns) /\ Len(Get(Config.columns)) > 0
                    THEN Get(Config.columns)
                    ELSE IF Len(call.data) > 0 THEN Keys(ExpectedRow(1))
                    ELSE <<>>)
    /\ EmptyExport

C5_Witness ==
    /\ IsCsv /\ pc = "rows"
    /\ Config.columns = Some(<<>>)
    /\ call.transformers = <<"add_full_name">>
    /\ columns = <<"id", "name", "full_name">>

\* the text of the cell of column col in an exported row
ExpectedCell(row, col) ==
    IF HasKey(row, col)
    THEN format_value(Config, DictGet(row, col, VNone)).text
    ELSE Config.null_value

HeaderRows == IF Config.include_header THEN 1 ELSE 0

\* every data row of the CSV sink has one cell per resolved column, in order
CsvRowsFollowColumns ==
    \A i \in 1..(Len(sink) - HeaderRows) :
        /\ Len(sink[HeaderRows + i].cells) = Len(columns)
        /\ \A j \in 1..Len(columns) :
              sink[HeaderRows + i].cells[j] = ExpectedCell(rows[i], columns[j])

\* the place of the i-th row element in the XML sink, after the declaration
\* and the root tag
XmlBase(i) == 2 + (i - 1) * (Len(columns) + 2)

\* every complete row element holds exactly the resolved columns, in order;
\* what follows the complete elements is the root's closing tag or the start
\* of an element cut short by a failure, itself a prefix of the columns
XmlRowsFollowColumns ==
    /\ \A i \in 1..row_count :
          /\ XmlBase(i + 1) <= Len(sink)
          /\ sink[XmlBase(i) + 1].kind = "open"
          /\ IsCloseRow(sink[XmlBase(i + 1)])
          /\ \A j \in 1..Len(columns) :
                LET e == sink[XmlBase(i) + 1 + j]
                IN  /\ e.kind = "cell"
                    /\ e.name = columns[j]
                    /\ e.cells = <<XmlEscape(ExpectedCell(rows[i], columns[j]))>>
    /\ \A p \in (XmlBase(row_count + 1) + 1)..Len(sink) :
          LET j == p - XmlBase(row_count + 1) - 1
          IN  \/ sink[p].kind = "open" /\ j = 0
              \/ sink[p].kind = "close" /\ sink[p].name = "data" /\ j = 0
              \/ /\ sink[p].kind = "cell"
                 /\ j \in 1..Len(columns)
                 /\ sink[p].name = columns[j]

\* C6: within one CSV or XML export every data row or row element has
\* exactly one cell per resolved column, in resolved column order, whatever
\* the keys of the record: a missing column gives the null token, a field
\* that is no resolved column is not emitted.
C6_RowsFollowColumns ==
    /\ (IsCsv /\ pc \in {"rows", "return", "done"}) => CsvRowsFollowColumns
    /\ (IsXml /\ pc \in {"rows", "return", "done"} /\ Len(sink) >= 2)
         => XmlRowsFollowColumns

C6_Witness ==
    /\ IsXml /\ Finished
    /\ result.kind # "raised"
    /\ row_count = 2
    /\ \E i \in 1..2 :
          /\ \E j \in 1..Len(columns) : ~HasKey(rows[i], columns[j])
          /\ \E q \in 1..Len(rows[i]) : ~InSeq(rows[i][q].k, columns)

\* C7: what an export hands to its writer is, record by record and in
\* order, the input threaded through the transformers registered when the
\* call was made, in registration order; the count is unchanged, without
\* transformers the input itself is handed over, and the call leaves the
\* registered list as it found it.
C7_TransformPipeline ==
    /\ call.op \in Exports => transformers = call.transformers
    /\ (call.op \in Exports /\ pc \in {"begin", "rows", "return"}) =>
         /\ Len(rows) = Len(call.data)
         /\ \A i \in 1..Len(rows) : rows[i] = ExpectedRow(i)
         /\ (call.transformers = <<>> => rows = call.data)

C7_Witness ==
    /\ pc = "begin"
    /\ call.transformers = <<"anonymize", "add_full_name">>
    /\ Len(rows) = 2
    /\ DictGet(rows[2], "full_name", VNone) = VStr("Anon Doe")

\* the header a CSV export's columns call for
ExpectedLabels ==
    [j \in 1..Len(columns) |->
        IF ~IsNone(Config.column_labels) /\ HasKey(Get(Config.column_labels), columns[j])
        THEN DictGet(Get(Config.column_labels), columns[j], "")
        ELSE columns[j]]

\* C8: the buffered CSV writer writes, for a non-empty list with
\* include_header, one header row of the display labels before any data
\* row and then one data row per record in input order; without
\* include_header the data rows only; for an empty list nothing at all, and
\* it returns success with row_count 0.
C8_CsvOutput ==
    /\ (IsCsv /\ pc = "rows") =>
         /\ Len(sink) = HeaderRows + (idx - 1)
         /\ Config.include_header => sink[1].cells = ExpectedLabels
    /\ (IsCsv /\ ~IsNone(writerResult)) =>
         IF Len(rows) = 0
         THEN sink = <<>> /\ writerResult = Some(ExportResult(TRUE, 0, None))
         ELSE /\ Len(sink) = HeaderRows + Len(rows)
              /\ Config.include_header => sink[1].cells = ExpectedLabels
              /\ \A i \in 1..Len(rows) :
                    sink[HeaderRows + i].cells =
                        [j \in 1..Len(columns) |-> ExpectedCell(rows[i], columns[j])]

C8_Witness ==
    /\ IsCsv /\ Finished
    /\ call.op = "export_csv"
    /\ Config.include_header
    /\ ~IsNone(Config.column_labels)
    /\ Len(rows) = 2
    /\ Len(sink) = 3
    /\ sink[1].cells = <<"Name", "id", "note">>

\* C9: format_value raises for no value and gives: null -> the null token;
\* timestamp -> its rendering under the date pattern; boolean -> "true" or
\* "false"; list or mapping -> a string; anything else -> str(value).
C9_FormatValueTotal ==
    (call.op = "format_value" /\ Finished) =>
        /\ result.kind = "str"
        /\ call.value.tag = "none" => result.text = Config.null_value
        /\ call.value.tag = "datetime" =>
             result.text = strftime(call.value, Config.date_format)
        /\ call.value.tag = "bool" =>
             result.text = (IF call.value.n = 1 THEN "true" ELSE "false")
        /\ call.value.tag \in {"int", "str", "object"} => result.text = Str(call.value)

\* the JSON object written for the i-th record
IsJson == writer \in {"JSONExporter.export", "JSONExporter.export_jsonl"}
JsonObjects ==
    IF writer = "JSONExporter.export"
    THEN (IF Len(sink) = 0 THEN <<>> ELSE sink[1].docs)
    ELSE [i \in 1..Len(sink) |-> sink[i].docs[1]]

\* the columns selected for a record of a JSON export
Selected(row) ==
    IF ~IsNone(Config.columns) /\ Len(Get(Config.columns)) > 0
    THEN Get(Config.columns) ELSE Keys(row)

IsNull(row, col) == DictGet(row, col, VNone) = VNone

\* in CSV and XML, a None or absent field of a selected column is the null
\* token
NullTokenInRows ==
    /\ (IsCsv /\ pc \in {"rows", "return", "done"}) =>
         \A i \in 1..(Len(sink) - HeaderRows) : \A j \in 1..Len(columns) :
            IsNull(rows[i], columns[j]) =>
                sink[HeaderRows + i].cells[j] = Config.null_value
    /\ (IsXml /\ pc \in {"rows", "return", "done"} /\ Len(sink) >= 2) =>
         \A i \in 1..row_count : \A j \in 1..Len(columns) :
            IsNull(rows[i], columns[j]) =>
                sink[XmlBase(i) + 1 + j].cells = <<XmlEscape(Config.null_value)>>

\* C10 as stated: ... and in JSON output a None or absent field of a
\* selected column is JSON null.
C10_NullOrAbsentIsNull ==
    /\ NullTokenInRows
    /\ (IsJson /\ pc \in {"rows", "return", "done"}) =>
         \A i \in 1..Len(JsonObjects) : \A j \in 1..Len(Selected(rows[i])) :
            LET col == Selected(rows[i])[j]
            IN  IsNull(rows[i], col) =>
                    /\ HasKey(JsonObjects[i].items, col)
                    /\ JsonText(DictGet(JsonObjects[i].items, col, VInt(0))) = "null"

\* C10 as amended: in CSV and XML a None or absent field of a selected
\* column is the null token; in JSON array and JSON Lines output a field
\* whose value is None is JSON null, and a selected column absent from the
\* record is left out of the object.
C10_NoneIsNullAbsentOmitted ==
    /\ NullTokenInRows
    /\ (IsJson /\ pc \in {"rows", "return", "done"}) =>
         \A i \in 1..Len(JsonObjects) : \A j \in 1..Len(Selected(rows[i])) :
            LET col == Selected(rows[i])[j]
            IN  IF HasKey(rows[i], col)
                THEN IsNull(rows[i], col) =>
                        /\ HasKey(JsonObjects[i].items, col)
                        /\ JsonText(DictGet(JsonObjects[i].items, col, VInt(0))) = "null"
                ELSE ~HasKey(JsonObjects[i].items, col)

C10_Witness ==
    /\ writer = "JSONExporter.export_jsonl" /\ Finished
    /\ result.kind = "str"
    /\ Config.columns = Some(<<"name", "id", "full_name">>)
    /\ Len(rows) = 1
    /\ rows[1] = Bob
    /\ sink[1].text = "{\"name\": null, \"id\": 2}\n"

====
